---- MODULE Spec2Model ----
(***************************************************************************)
(* The loan repayment calculator of src/components/loan-calculator.tsx     *)
(* (src/unnamed/part_000 is the same component with a dark-mode switch     *)
(* added; its validateForm, handlers, effect and calculateSchedule are     *)
(* line for line the same).                                                *)
(*                                                                         *)
(* The component's state is the five useState cells date, schedule,        *)
(* loading, errors and formData.  Its operations are the calendar's        *)
(* onSelect (setDate), handleInputChange, handleFrequencyChange and the    *)
(* effect on [date, formData] that calls calculateSchedule.                *)
(*                                                                         *)
(* Numbers.  A JavaScript number is modelled as one of                     *)
(*   [k |-> "nan"]                    NaN                                  *)
(*   [k |-> "inf", s |-> 1 or -1]     +Infinity, -Infinity                 *)
(*   [k |-> "fin", s, n, d]           the rational s * n / d, in lowest    *)
(*                                    terms, n and d arbitrary-precision   *)
(*                                    naturals                             *)
(*   [k |-> "unk"]                    a number whose value the model does  *)
(*                                    not compute (a power whose exponent  *)
(*                                    is not whole, unless it is a half    *)
(*                                    and the base a square)               *)
(* so arithmetic is exact: the rounding of IEEE doubles is not modelled,   *)
(* the special values that decide the claims (0/0 = NaN, x/0 = Infinity,   *)
(* NaN propagation, comparisons with NaN being false) are.                 *)
(***************************************************************************)
EXTENDS Integers, Sequences, FiniteSets, TLC

(***************************************************************************)
(* Arbitrary-precision naturals: little-endian sequences of limbs in       *)
(* 0 .. Base-1 without leading zero limbs; <<>> is 0.                      *)
(***************************************************************************)
Base == 10 * 10 * 10

BOne == <<1>>

Limb(a, i) == IF 1 <= i /\ i <= Len(a) THEN a[i] ELSE 0

RECURSIVE BTrim(_)
BTrim(a) ==
  IF a = <<>> THEN <<>>
  ELSE IF a[Len(a)] = 0 THEN BTrim(SubSeq(a, 1, Len(a) - 1)) ELSE a

RECURSIVE BFromNat(_)
BFromNat(x) == IF x = 0 THEN <<>> ELSE <<x % Base>> \o BFromNat(x \div Base)

\* the value of a natural of at most three limbs
BToNat(a) == Limb(a, 1) + Base * Limb(a, 2) + Base * Base * Limb(a, 3)

RECURSIVE BAddC(_, _, _, _)
BAddC(a, b, i, c) ==
  IF i > Len(a) /\ i > Len(b)
  THEN (IF c = 0 THEN <<>> ELSE <<c>>)
  ELSE LET s == Limb(a, i) + Limb(b, i) + c
       IN  <<s % Base>> \o BAddC(a, b, i + 1, s \div Base)

BAdd(a, b) == BAddC(a, b, 1, 0)

RECURSIVE BCmpAt(_, _, _)
BCmpAt(a, b, i) ==
  IF i = 0 THEN 0
  ELSE IF a[i] < b[i] THEN -1
  ELSE IF a[i] > b[i] THEN 1
  ELSE BCmpAt(a, b, i - 1)

\* -1, 0, 1 as a < b, a = b, a > b
BCmp(a, b) ==
  IF Len(a) < Len(b) THEN -1
  ELSE IF Len(a) > Len(b) THEN 1
  ELSE BCmpAt(a, b, Len(a))

RECURSIVE BSubC(_, _, _, _)
BSubC(a, b, i, c) ==
  IF i > Len(a) THEN <<>>
  ELSE LET s == a[i] - Limb(b, i) - c
       IN  IF s < 0 THEN <<s + Base>> \o BSubC(a, b, i + 1, 1)
                    ELSE <<s>> \o BSubC(a, b, i + 1, 0)

\* a - b for a >= b
BSub(a, b) == BTrim(BSubC(a, b, 1, 0))

RECURSIVE BMulSmallC(_, _, _, _)
BMulSmallC(a, m, i, c) ==
  IF i > Len(a)
  THEN (IF c = 0 THEN <<>> ELSE <<c>>)
  ELSE LET s == a[i] * m + c
       IN  <<s % Base>> \o BMulSmallC(a, m, i + 1, s \div Base)

\* a * m for a limb m
BMulSmall(a, m) == IF m = 0 \/ a = <<>> THEN <<>> ELSE BMulSmallC(a, m, 1, 0)

BShift(a) == IF a = <<>> THEN <<>> ELSE <<0>> \o a

\* acc * Base^i + a * (the low i limbs of b).  (A value that the next pass
\* needs is bound through a one-element set, here and below, so that it is
\* computed before the pass and not inside it; a value used more than once
\* is passed to an operator as its argument, so that it is computed once.)
RECURSIVE BMulFrom(_, _, _, _)
BMulFrom(a, b, i, acc) ==
  IF i = 0 THEN acc
  ELSE CHOOSE p \in {BMulFrom(a, b, i - 1, next) :
                     next \in {BAdd(BShift(acc), BMulSmall(a, b[i]))}} : TRUE

BMul(a, b) ==
  IF a = <<>> \/ b = <<>> THEN <<>>
  ELSE IF Len(a) + Len(b) <= 3 THEN BFromNat(BToNat(a) * BToNat(b))
  ELSE BMulFrom(a, b, Len(b), <<>>)

\* the largest q in lo .. hi with q * b <= r  (lo * b <= r is given)
RECURSIVE BQuotDigit(_, _, _, _)
BQuotDigit(r, b, lo, hi) ==
  IF lo >= hi THEN lo
  ELSE LET mid == (lo + hi + 1) \div 2
       IN  IF BCmp(BMulSmall(b, mid), r) <= 0
           THEN BQuotDigit(r, b, mid, hi)
           ELSE BQuotDigit(r, b, lo, mid - 1)

\* the limb r \div b for r < Base * b: bracketed from the leading limbs of
\* r and b, then searched
BQuot(r, b) ==
  IF BCmp(r, b) < 0 THEN 0
  ELSE LET n   == Len(b)
           bt  == Limb(b, n) * Base + Limb(b, n - 1)
           rt  == (Limb(r, n + 1) * Base + Limb(r, n)) * Base + Limb(r, n - 1)
           top == (rt + 1) \div bt
       IN  IF n = 1 THEN BToNat(r) \div b[1]
           ELSE BQuotDigit(r, b, rt \div (bt + 1),
                           IF top > Base - 1 THEN Base - 1 ELSE top)

\* long division of a by b from limb i down, with the quotient limbs q found
\* so far (most significant last) and the running remainder r
\* the quotient limb q1 of r1 by b with what is left of r1
BDivDigit(r1, b, q1) == <<q1, BSub(r1, BMulSmall(b, q1))>>

BDivStep(r1, b) == BDivDigit(r1, b, BQuot(r1, b))

RECURSIVE BDivModFrom(_, _, _, _, _)
BDivModFrom(a, b, i, q, r) ==
  IF i = 0 THEN <<q, r>>
  ELSE CHOOSE qr \in
         {BDivModFrom(a, b, i - 1, <<d[1]>> \o q, d[2]) :
          d \in {BDivStep(BAdd(BShift(r), BFromNat(a[i])), b)}} : TRUE

BDivModTrim(qr) == << BTrim(qr[1]), qr[2] >>

\* <<a \div b, a % b>> for b # 0
BDivMod(a, b) ==
  IF Len(a) <= 3 /\ Len(b) <= 3
  THEN << BFromNat(BToNat(a) \div BToNat(b)), BFromNat(BToNat(a) % BToNat(b)) >>
  ELSE IF BCmp(a, b) < 0 THEN << <<>>, a >>
  ELSE BDivModTrim(BDivModFrom(a, b, Len(a) - Len(b) + 1, <<>>,
                               SubSeq(a, Len(a) - Len(b) + 2, Len(a))))

RECURSIVE NatGcd(_, _)
NatGcd(x, y) == IF y = 0 THEN x ELSE NatGcd(y, x % y)

\* one step of Euclid's algorithm on the pair p, none when it has ended
EuclidStep(p) ==
  IF p[2] = <<>> THEN p ELSE <<p[2], BDivMod(p[1], p[2])[2]>>

\* 2^k steps of Euclid's algorithm on the pair p
RECURSIVE EuclidSteps(_, _)
EuclidSteps(p, k) ==
  IF p[2] = <<>> THEN p
  ELSE IF Len(p[1]) <= 3 /\ Len(p[2]) <= 3
  THEN <<BFromNat(NatGcd(BToNat(p[1]), BToNat(p[2]))), <<>> >>
  ELSE IF k = 0 THEN EuclidStep(p)
  ELSE EuclidSteps(EuclidSteps(p, k - 1), k - 1)

\* the greatest common divisor, by steps doubled until the algorithm ends
RECURSIVE BGcdFrom(_, _)
BGcdAfter(q, k) == IF q[2] = <<>> THEN q[1] ELSE BGcdFrom(q, k + 1)

BGcdFrom(p, k) == BGcdAfter(EuclidSteps(p, k), k)

BGcd(a, b) ==
  IF a = BOne \/ b = BOne THEN BOne
  ELSE IF a = b THEN a
  ELSE BGcdFrom(<<a, b>>, 0)

\* a \div g for a divisor g of a
BDivExact(a, g) == IF g = BOne THEN a ELSE BDivMod(a, g)[1]

(***************************************************************************)
(* JavaScript numbers.                                                     *)
(***************************************************************************)
NaN    == [k |-> "nan"]
Inf(s) == [k |-> "inf", s |-> s]
Unk    == [k |-> "unk"]
Zero   == [k |-> "fin", s |-> 0, n |-> <<>>, d |-> BOne]

\* the rational s * n / d in lowest terms (d # 0)
FinOver(s, n, d, g) ==
  [k |-> "fin", s |-> s, n |-> BDivExact(n, g), d |-> BDivExact(d, g)]

Fin(s, n, d) ==
  IF n = <<>> \/ s = 0 THEN Zero ELSE FinOver(s, n, d, BGcd(n, d))

\* the number of the integer i
FromInt(i) ==
  IF i = 0 THEN Zero
  ELSE IF i < 0 THEN [k |-> "fin", s |-> -1, n |-> BFromNat(-i), d |-> BOne]
  ELSE [k |-> "fin", s |-> 1, n |-> BFromNat(i), d |-> BOne]

\* the number p / q for integers p and q > 0
Ratio(p, q) ==
  Fin(IF p < 0 THEN -1 ELSE IF p = 0 THEN 0 ELSE 1,
      BFromNat(IF p < 0 THEN -p ELSE p), BFromNat(q))

IsNaN(x) == x.k = "nan"
IsFin(x) == x.k = "fin"

Neg(x) ==
  CASE x.k = "fin" -> [x EXCEPT !.s = -x.s]
    [] x.k = "inf" -> Inf(-x.s)
    [] OTHER       -> x

\* s * (xn / xd) * (yn / yd) for two fractions in lowest terms: in lowest
\* terms again once the common divisors across the two are taken out
FinProductOver(s, xn, xd, yn, yd, g1, g2) ==
  [k |-> "fin", s |-> s,
   n |-> BMul(BDivExact(xn, g1), BDivExact(yn, g2)),
   d |-> BMul(BDivExact(xd, g2), BDivExact(yd, g1))]

FinProduct(s, xn, xd, yn, yd) ==
  FinProductOver(s, xn, xd, yn, yd, BGcd(xn, yd), BGcd(yn, xd))

\* the sum of two finite numbers, neither 0
\* with g the gcd of the denominators, xd = x.d / g, the numerator t of the
\* sum over xd * y.d and g2 = gcd(t, g)
FinSumOver(s, t, xd, yd, g2) ==
  [k |-> "fin", s |-> s, n |-> BDivExact(t, g2), d |-> BMul(xd, BDivExact(yd, g2))]

FinSumOf(s, t, xd, yd, g) == FinSumOver(s, t, xd, yd, BGcd(t, g))

\* a = x.n * (y.d / g), b = y.n * xd, c their comparison
FinSumSigned(x, y, g, xd, a, b, c) ==
  IF x.s # y.s /\ c = 0 THEN Zero
  ELSE FinSumOf(IF x.s = y.s \/ c > 0 THEN x.s ELSE y.s,
                IF x.s = y.s THEN BAdd(a, b)
                ELSE IF c > 0 THEN BSub(a, b) ELSE BSub(b, a),
                xd, y.d, g)

FinSumTerms(x, y, g, xd, a, b) == FinSumSigned(x, y, g, xd, a, b, BCmp(a, b))

FinSumScaled(x, y, g, xd) ==
  FinSumTerms(x, y, g, xd, BMul(x.n, BDivExact(y.d, g)), BMul(y.n, xd))

FinSumWith(x, y, g) == FinSumScaled(x, y, g, BDivExact(x.d, g))

FinSum(x, y) == FinSumWith(x, y, BGcd(x.d, y.d))

\* x + y
Add(x, y) ==
  CASE IsNaN(x) \/ IsNaN(y) -> NaN
    [] x.k = "unk" \/ y.k = "unk" -> Unk
    [] x.k = "inf" /\ y.k = "inf" -> IF x.s = y.s THEN x ELSE NaN
    [] x.k = "inf" -> x
    [] y.k = "inf" -> y
    [] OTHER -> IF x.s = 0 THEN y ELSE IF y.s = 0 THEN x ELSE FinSum(x, y)

\* x - y
Sub(x, y) == Add(x, Neg(y))

\* x * y
Mul(x, y) ==
  CASE IsNaN(x) \/ IsNaN(y) -> NaN
    [] x.k = "unk" \/ y.k = "unk" -> Unk
    [] x.k = "inf" \/ y.k = "inf" ->
         IF x.s = 0 \/ y.s = 0 THEN NaN ELSE Inf(x.s * y.s)
    [] OTHER -> IF x.s = 0 \/ y.s = 0 THEN Zero
                ELSE FinProduct(x.s * y.s, x.n, x.d, y.n, y.d)

\* x / y: 0/0 and Infinity/Infinity are NaN, x/0 is an infinity
Div(x, y) ==
  CASE IsNaN(x) \/ IsNaN(y) -> NaN
    [] x.k = "unk" \/ y.k = "unk" -> Unk
    [] x.k = "inf" -> IF y.k = "inf" THEN NaN
                      ELSE Inf(IF y.s < 0 THEN -x.s ELSE x.s)
    [] y.k = "inf" -> Zero
    [] y.s = 0 -> IF x.s = 0 THEN NaN ELSE Inf(x.s)
    [] OTHER -> IF x.s = 0 THEN Zero
                ELSE FinProduct(x.s * y.s, x.n, x.d, y.d, y.n)

\* -1, 0, 1 as x < y, x = y, x > y, for numbers that are finite or infinite
Cmp(x, y) ==
  CASE x.k = "inf" /\ y.k = "inf" ->
         (IF x.s = y.s THEN 0 ELSE x.s)
    [] x.k = "inf" -> x.s
    [] y.k = "inf" -> -y.s
    [] OTHER ->
         IF x.s # y.s THEN (IF x.s < y.s THEN -1 ELSE 1)
         ELSE IF x.s = 0 THEN 0
         ELSE x.s * BCmp(BMul(x.n, y.d), BMul(y.n, x.d))

Ordered(x, y) == x.k \in {"fin", "inf"} /\ y.k \in {"fin", "inf"}

\* x < y, x <= y, x === y: false when an operand is NaN
Lt(x, y) == Ordered(x, y) /\ Cmp(x, y) < 0
Le(x, y) == Ordered(x, y) /\ Cmp(x, y) <= 0
Eq(x, y) == Ordered(x, y) /\ Cmp(x, y) = 0

\* Math.max(x, y): NaN when an operand is NaN
Max(x, y) ==
  CASE IsNaN(x) \/ IsNaN(y) -> NaN
    [] x.k = "unk" \/ y.k = "unk" -> Unk
    [] OTHER -> IF Cmp(x, y) >= 0 THEN x ELSE y

\* ToIntegerOrInfinity(x) of a finite number of small magnitude, as an integer
\* (the fraction is dropped, towards zero)
ToInteger(x) ==
  x.s * BToNat(BDivMod(x.n, x.d)[1])

IsInteger(x) == IsFin(x) /\ x.d = BOne

\* x to the power of a natural e, by squaring
RECURSIVE PowNat(_, _)
Square(h) == Mul(h, h)

PowStep(x, e, sq) == IF e % 2 = 0 THEN sq ELSE Mul(x, sq)

PowNat(x, e) ==
  IF e = 0 THEN FromInt(1)
  ELSE IF e = 1 THEN x
  ELSE PowStep(x, e, Square(PowNat(x, e \div 2)))

\* the square root of a natural of at most two limbs that is a square
HasNatSqrt(a) == Len(a) <= 2 /\ \E i \in 0..Base : i * i = BToNat(a)

NatSqrt(a) == CHOOSE i \in 0..Base : i * i = BToNat(a)

\* x is the square of a fraction of small naturals
IsSquare(x) == IsFin(x) /\ x.s > 0 /\ HasNatSqrt(x.n) /\ HasNatSqrt(x.d)

Sqrt(x) ==
  [k |-> "fin", s |-> 1, n |-> BFromNat(NatSqrt(x.n)), d |-> BFromNat(NatSqrt(x.d))]

\* Math.pow(x, y) for x >= 0: computed for a whole exponent, and for a
\* positive exponent of halves when x is a square (the power is then a
\* fraction again); left uncomputed for any other exponent when x is not 1
Pow(x, y) ==
  CASE IsNaN(y) -> NaN
    [] IsFin(y) /\ y.s = 0 -> FromInt(1)
    [] IsNaN(x) -> NaN
    [] x.k = "unk" \/ y.k = "unk" -> Unk
    [] IsInteger(y) /\ y.s > 0 -> PowNat(x, ToInteger(y))
    [] IsInteger(y) /\ y.s < 0 -> Div(FromInt(1), PowNat(x, -ToInteger(y)))
    [] IsFin(y) /\ y.s > 0 /\ y.d = <<2>> /\ IsSquare(x) ->
         PowNat(Sqrt(x), BToNat(y.n))
    [] IsFin(y) /\ Eq(x, FromInt(1)) -> FromInt(1)
    [] OTHER -> Unk


(***************************************************************************)
(* Texts.  The value of a form field is a string, modelled as the sequence *)
(* of its characters.  Number(text) is JavaScript's string-to-number       *)
(* conversion on texts made of digits, a sign, a decimal point and         *)
(* characters that belong to no numeric literal: the empty text is 0, a    *)
(* text of the form [+-] digits [. digits] or [+-] [digits] . digits is    *)
(* its decimal value, any other text is NaN.                               *)
(***************************************************************************)
DigitChars == <<"0", "1", "2", "3", "4", "5", "6", "7", "8", "9">>

IsDigit(c) == \E i \in 1..10 : DigitChars[i] = c

DigitVal(c) == (CHOOSE i \in 1..10 : DigitChars[i] = c) - 1

RECURSIVE DigitsToBig(_, _)
DigitsToBig(ds, acc) ==
  IF ds = <<>> THEN acc
  ELSE DigitsToBig(Tail(ds), BAdd(BMulSmall(acc, 10), BFromNat(DigitVal(Head(ds)))))

RECURSIVE BPow10(_)
BPow10(e) == IF e = 0 THEN BOne ELSE BMulSmall(BPow10(e - 1), 10)

AllDigits(ds) == \A i \in 1..Len(ds) : IsDigit(ds[i])

\* the value of the decimal literal sign int . frac
Decimal(sign, int, frac) ==
  IF AllDigits(int) /\ AllDigits(frac) /\ Len(int) + Len(frac) > 0
  THEN Fin(sign, DigitsToBig(int \o frac, <<>>), BPow10(Len(frac)))
  ELSE NaN

\* the position of the first "." of body, past its end when it has none
FirstDot(body, dots) ==
  IF dots = {} THEN Len(body) + 1
  ELSE CHOOSE i \in dots : \A j \in dots : i <= j

DecimalAt(sign, body, dot) ==
  Decimal(sign, SubSeq(body, 1, dot - 1), SubSeq(body, dot + 1, Len(body)))

Unsigned(sign, body) ==
  DecimalAt(sign, body, FirstDot(body, {i \in 1..Len(body) : body[i] = "."}))

Number(text) ==
  IF text = <<>> THEN Zero
  ELSE IF Head(text) = "-" THEN Unsigned(-1, Tail(text))
  ELSE IF Head(text) = "+" THEN Unsigned(1, Tail(text))
  ELSE Unsigned(1, text)

RECURSIVE NatText(_)
NatText(i) ==
  IF i < 10 THEN <<DigitChars[i + 1]>>
  ELSE NatText(i \div 10) \o <<DigitChars[(i % 10) + 1]>>

\* String(i) for an integer i
IntText(i) == IF i < 0 THEN <<"-">> \o NatText(-i) ELSE NatText(i)

(***************************************************************************)
(* Dates.  A Date is a calendar day [y, m, d] with m in 0..11 (local time, *)
(* the time of day never changes), or InvalidDate.                         *)
(***************************************************************************)
InvalidDate == [invalid |-> TRUE]

IsLeap(y) == (y % 4 = 0 /\ y % 100 # 0) \/ y % 400 = 0

DaysInMonth(y, m) ==
  IF m = 1 THEN (IF IsLeap(y) THEN 29 ELSE 28)
  ELSE IF m \in {3, 5, 8, 10} THEN 30 ELSE 31

\* MakeDay(y, m, d) for an integer month m of any size and 1 <= d <= 31:
\* the month is carried into the year, a day past the end of the month
\* runs on into the next month
MakeDateIn(yy, mm, d, n) ==
  IF d <= n THEN [y |-> yy, m |-> mm, d |-> d]
  ELSE IF mm = 11 THEN [y |-> yy + 1, m |-> 0, d |-> d - n]
  ELSE [y |-> yy, m |-> mm + 1, d |-> d - n]

MakeDate(y, m, d) ==
  MakeDateIn(y + (m \div 12), m % 12, d, DaysInMonth(y + (m \div 12), m % 12))

\* dt.setMonth(dt.getMonth() + k) for a number k
SetMonthPlus(dt, k) ==
  IF dt = InvalidDate \/ ~IsFin(k) THEN InvalidDate
  ELSE MakeDate(dt.y, dt.m + ToInteger(k), dt.d)

\* dt.setFullYear(dt.getFullYear() + 1)
SetFullYearPlusOne(dt) ==
  IF dt = InvalidDate THEN InvalidDate ELSE MakeDate(dt.y + 1, dt.m, dt.d)


(***************************************************************************)
(* The component.                                                          *)
(***************************************************************************)
VARIABLES
  date,       \* useState<Date>(): NoDate (undefined) or a Date
  schedule,   \* useState<ScheduleRow[]>([])
  loading,    \* useState(false)
  errors,     \* useState<ValidationErrors>({}): field name -> message
  formData,   \* useState({principal, tenure, rate, frequency, moratorium})
  pending     \* the effect on [date, formData] is scheduled and has not run

vars == <<date, schedule, loading, errors, formData, pending>>

NoDate == [undefined |-> TRUE]

NoErrors == [f \in {} |-> ""]

InitialFormData ==
  [principal |-> <<>>, tenure |-> <<>>, rate |-> <<>>,
   frequency |-> "monthly", moratorium |-> <<"0">>]

Frequencies == {"monthly", "quarterly", "semi-annually", "annually"}

\* the object literal indexed by frequency in calculateSchedule
PeriodsPerYear ==
  ("monthly" :> 12) @@ ("quarterly" :> 4) @@ ("semi-annually" :> 2) @@ ("annually" :> 1)

(***************************************************************************)
(* validateForm: the errors object it builds.  It returns true exactly     *)
(* when that object has no key (ValidateFormReturns).                      *)
(***************************************************************************)
PrincipalMessage  == "Principal amount must be greater than 0"
TenureMessage     == "Tenure must be greater than 0"
RateMessage       == "Interest rate cannot be negative"
MoratoriumMessage == "Moratorium period cannot be negative"

ValidateFormFirstErrorOnly(data) ==
  IF Le(Number(data.principal), Zero) THEN "principal" :> PrincipalMessage
  ELSE IF Le(Number(data.tenure), Zero) THEN "tenure" :> TenureMessage
  ELSE IF Lt(Number(data.rate), Zero) THEN "rate" :> RateMessage
  ELSE IF Lt(Number(data.moratorium), Zero) THEN "moratorium" :> MoratoriumMessage
  ELSE NoErrors

ValidateForm(data) ==
  LET failing ==
        {f \in {"principal"} : Le(Number(data.principal), Zero)}
        \cup {f \in {"tenure"} : Le(Number(data.tenure), Zero)}
        \cup {f \in {"rate"} : Lt(Number(data.rate), Zero)}
        \cup {f \in {"moratorium"} : Lt(Number(data.moratorium), Zero)}
  IN  [f \in failing |->
         CASE f = "principal" -> PrincipalMessage
           [] f = "tenure" -> TenureMessage
           [] f = "rate" -> RateMessage
           [] OTHER -> MoratoriumMessage]

\* Object.keys(newErrors).length === 0
ValidateFormReturns(newErrors) == DOMAIN newErrors = {}

(***************************************************************************)
(* calculateSchedule, after validation.                                    *)
(***************************************************************************)
TotalPeriods(tenure, periodsPerYear) == Mul(tenure, FromInt(periodsPerYear))

PeriodicRate(rate, periodsPerYear) ==
  Div(Div(rate, FromInt(100)), FromInt(periodsPerYear))

EmiWithoutMinusOne(principal, periodicRate, totalPeriods) ==
  Div(Mul(Mul(principal, periodicRate),
          Pow(Add(FromInt(1), periodicRate), totalPeriods)),
      Pow(Add(FromInt(1), periodicRate), totalPeriods))

Emi(principal, periodicRate, totalPeriods) ==
  Div(Mul(Mul(principal, periodicRate),
          Pow(Add(FromInt(1), periodicRate), totalPeriods)),
      Sub(Pow(Add(FromInt(1), periodicRate), totalPeriods), FromInt(1)))

LoopContinuesInclusive(i, totalPeriods) == Le(FromInt(i), totalPeriods)

LoopContinuesBelowWhole(i, totalPeriods) == Le(FromInt(i + 1), totalPeriods)

\* the loop condition i < totalPeriods
LoopContinues(i, totalPeriods) == Lt(FromInt(i), totalPeriods)

RowWithPrincipalAsPayment(currentDate, emi, interest, principal, balance) ==
  [date |-> currentDate, payment |-> principal, interest |-> interest,
   principal |-> principal, balance |-> Max(Zero, balance)]

\* the object pushed onto newSchedule
Row(currentDate, emi, interest, principal, balance) ==
  [date |-> currentDate, payment |-> emi, interest |-> interest,
   principal |-> principal, balance |-> Max(Zero, balance)]

\* the increment of currentDate at the end of the loop body
NextDate(currentDate, frequency) ==
  IF frequency = "monthly" THEN SetMonthPlus(currentDate, FromInt(1))
  ELSE IF frequency = "quarterly" THEN SetMonthPlus(currentDate, FromInt(3))
  ELSE IF frequency = "semi-annually" THEN SetMonthPlus(currentDate, FromInt(6))
  ELSE SetFullYearPlusOne(currentDate)

\* one pass of the loop body over the state st of the loop: the counter i,
\* the running balance, currentDate and newSchedule
\* the loop state after the pass that computed interest, principal and the
\* new balance
PushRow(st, emi, frequency, interest, principal, balance) ==
  [i           |-> st.i + 1,
   balance     |-> balance,
   currentDate |-> NextDate(st.currentDate, frequency),
   newSchedule |-> Append(st.newSchedule,
                          Row(st.currentDate, emi, interest, principal, balance))]

RepayWholePayment(st, emi, frequency, interest, principal) ==
  PushRow(st, emi, frequency, interest, principal, Sub(st.balance, emi))

\* balance -= principal
Repay(st, emi, frequency, interest, principal) ==
  PushRow(st, emi, frequency, interest, principal, Sub(st.balance, principal))

\* principal = emi - interest
Split(st, emi, frequency, interest) ==
  Repay(st, emi, frequency, interest, Sub(emi, interest))

\* interest = balance * periodicRate
LoopBody(st, emi, periodicRate, frequency) ==
  Split(st, emi, frequency, Mul(st.balance, periodicRate))

\* up to 2^k passes of the loop from the state st, fewer when the loop
\* condition fails before
RECURSIVE LoopPasses(_, _, _, _, _, _)
LoopPasses(st, k, emi, periodicRate, totalPeriods, frequency) ==
  IF ~LoopContinues(st.i, totalPeriods) THEN st
  ELSE IF k = 0 THEN LoopBody(st, emi, periodicRate, frequency)
  ELSE LoopPasses(LoopPasses(st, k - 1, emi, periodicRate, totalPeriods, frequency),
                  k - 1, emi, periodicRate, totalPeriods, frequency)

\* the for loop from the state st on, run until its condition fails
RECURSIVE Loop(_, _, _, _, _, _)
LoopAfterStopsEarly(end, k, emi, periodicRate, totalPeriods, frequency) ==
  end.newSchedule

LoopAfter(end, k, emi, periodicRate, totalPeriods, frequency) ==
  IF ~LoopContinues(end.i, totalPeriods) THEN end.newSchedule
  ELSE Loop(end, k + 1, emi, periodicRate, totalPeriods, frequency)

Loop(st, k, emi, periodicRate, totalPeriods, frequency) ==
  LoopAfter(LoopPasses(st, k, emi, periodicRate, totalPeriods, frequency),
            k, emi, periodicRate, totalPeriods, frequency)

\* the constants computed before the loop
LocalsOf(principal, moratorium, totalPeriods, periodicRate) ==
  [principal |-> principal, moratorium |-> moratorium,
   totalPeriods |-> totalPeriods, periodicRate |-> periodicRate,
   emi |-> Emi(principal, periodicRate, totalPeriods)]

Locals(data) ==
  LocalsOf(Number(data.principal), Number(data.moratorium),
           TotalPeriods(Number(data.tenure), PeriodsPerYear[data.frequency]),
           PeriodicRate(Number(data.rate), PeriodsPerYear[data.frequency]))

LoopFromCountingMoratorium(c, dt, frequency) ==
  Loop([i |-> ToInteger(c.moratorium), balance |-> c.principal,
        currentDate |-> SetMonthPlus(dt, c.moratorium), newSchedule |-> <<>>],
       0, c.emi, c.periodicRate, c.totalPeriods, frequency)

\* the loop run from its initial state: balance = principal, currentDate =
\* the start date moved on by the moratorium, newSchedule = []
LoopFrom(c, dt, frequency) ==
  Loop([i |-> 0, balance |-> c.principal,
        currentDate |-> SetMonthPlus(dt, c.moratorium), newSchedule |-> <<>>],
       0, c.emi, c.periodicRate, c.totalPeriods, frequency)

\* newSchedule for validated data, a selected date dt and a frequency of the table
NewSchedule(data, dt) == LoopFrom(Locals(data), dt, data.frequency)

\* what setSchedule is left at when validation fails
OnInvalidCleared(old) == <<>>

OnInvalid(old) == old

CalculateKeepingFirst(newErrors) ==
  /\ errors' = newErrors
  /\ loading' = (IF ~ValidateFormReturns(newErrors) THEN loading ELSE FALSE)
  /\ IF ~ValidateFormReturns(newErrors) \/ date = NoDate \/ schedule # <<>>
     THEN schedule' = schedule
     ELSE schedule' = NewSchedule(formData, date)

\* calculateSchedule once validateForm has set the errors it found
Calculate(newErrors) ==
  /\ errors' = newErrors
  /\ loading' = (IF ~ValidateFormReturns(newErrors) THEN loading ELSE FALSE)
  /\ IF ~ValidateFormReturns(newErrors) THEN schedule' = OnInvalid(schedule)
     ELSE IF date = NoDate THEN schedule' = schedule
     ELSE IF formData.frequency \notin DOMAIN PeriodsPerYear
          THEN schedule' = schedule
     ELSE schedule' = NewSchedule(formData, date)

CalculateSchedule == Calculate(ValidateForm(formData))

(***************************************************************************)
(* The effect: if (date && Object.values(formData).every(Boolean))         *)
(*               calculateSchedule()                                       *)
(***************************************************************************)
EveryFieldTruthy(data) ==
  /\ data.principal # <<>>
  /\ data.tenure # <<>>
  /\ data.rate # <<>>
  /\ data.frequency # ""
  /\ data.moratorium # <<>>

EffectConditionDateOnly == date # NoDate

EffectCondition == date # NoDate /\ EveryFieldTruthy(formData)

RunEffect ==
  /\ pending
  /\ pending' = FALSE
  /\ IF EffectCondition THEN CalculateSchedule
     ELSE UNCHANGED <<schedule, loading, errors>>
  /\ UNCHANGED <<date, formData>>

(***************************************************************************)
(* The handlers.  Each sets a state cell, so the component renders again   *)
(* and the effect, whose dependencies changed, runs before the next event  *)
(* is handled.                                                             *)
(***************************************************************************)
InputNames == {"principal", "tenure", "rate", "moratorium"}

\* whether a change of formData schedules the effect
FormDataChangeSkipsEffect(name) == FALSE

FormDataChangeSchedulesEffect(name) == TRUE

\* onSelect={setDate}
SetDate(d) ==
  /\ ~pending
  /\ date' = d
  /\ pending' = (d # NoDate \/ date # NoDate)
  /\ UNCHANGED <<schedule, loading, errors, formData>>

HandleInputChange(name, value) ==
  /\ ~pending
  /\ formData' = [formData EXCEPT ![name] = value]
  /\ pending' = FormDataChangeSchedulesEffect(name)
  /\ UNCHANGED <<date, schedule, loading, errors>>

HandleFrequencyChange(value) ==
  /\ ~pending
  /\ formData' = [formData EXCEPT !.frequency = value]
  /\ pending' = FormDataChangeSchedulesEffect("frequency")
  /\ UNCHANGED <<date, schedule, loading, errors>>

(***************************************************************************)
(* Bounds and the values the model draws.                                  *)
(***************************************************************************)
MaxTenure == 2

Jan1  == [y |-> 2024, m |-> 0, d |-> 1]
Jan31 == [y |-> 2024, m |-> 0, d |-> 31]

\* what the user types and picks in the form
TypedValues(name) ==
  CASE name = "principal"  -> {<<>>, IntText(0), IntText(1000)}
    [] name = "tenure"     -> {<<>>, IntText(-1), IntText(1)}
    [] name = "rate"       -> {<<>>, IntText(-1), IntText(1200)}
    [] name = "moratorium" -> {<<>>, IntText(-1), IntText(0)}

PickedFrequencies == {"monthly", "annually"}

PickedDates == {NoDate, Jan1}

Init ==
  /\ date = NoDate
  /\ schedule = <<>>
  /\ loading = FALSE
  /\ errors = NoErrors
  /\ formData = InitialFormData
  /\ pending = TRUE

Next ==
  \/ \E d \in PickedDates : SetDate(d)
  \/ \E name \in InputNames : \E value \in TypedValues(name) :
       HandleInputChange(name, value)
  \/ \E value \in PickedFrequencies : HandleFrequencyChange(value)
  \/ RunEffect

Spec == Init /\ [][Next]_vars

(***************************************************************************)
(* The engine alone: every complete, valid form with a date selected, and  *)
(* the effect about to run on it.                                          *)
(***************************************************************************)
EngineGrid ==
  [principal  : {IntText(1000)},
   tenure     : {IntText(i) : i \in 1..MaxTenure}
                  \cup {<<"0", ".", "5">>, <<"1", ".", "5">>},
   rate       : {IntText(0), IntText(100), IntText(300), IntText(1200)},
   frequency  : Frequencies,
   moratorium : {IntText(0), IntText(3)}]

ReferenceCase ==
  [principal |-> IntText(100000), tenure |-> IntText(1), rate |-> IntText(12),
   frequency |-> "monthly", moratorium |-> IntText(0)]

ZeroRateCase ==
  [principal |-> IntText(12000), tenure |-> IntText(1), rate |-> IntText(0),
   frequency |-> "monthly", moratorium |-> IntText(0)]

EngineDates == {Jan1, Jan31}

EngineInit ==
  /\ date \in EngineDates
  /\ schedule = <<>>
  /\ loading = FALSE
  /\ errors = NoErrors
  /\ formData \in EngineGrid \cup {ReferenceCase, ZeroRateCase}
  /\ pending = TRUE

EngineNext == RunEffect

EngineSpec == EngineInit /\ [][EngineNext]_vars

(***************************************************************************)
(* The component with handleFrequencyChange given any string, as its       *)
(* signature (value: string) allows: a frequency that is no key of the     *)
(* periodsPerYear table.                                                   *)
(***************************************************************************)
UnknownFrequency == "weekly"

GivenFrequencies == PickedFrequencies \cup {UnknownFrequency}

AnyFrequencyNext ==
  \/ \E d \in PickedDates : SetDate(d)
  \/ \E name \in InputNames : \E value \in TypedValues(name) :
       HandleInputChange(name, value)
  \/ \E value \in GivenFrequencies : HandleFrequencyChange(value)
  \/ RunEffect

AnyFrequencySpec == Init /\ [][AnyFrequencyNext]_vars

(***************************************************************************)
(* The component with handleInputChange given a text that is no numeric    *)
(* literal, as e.target.value: string allows.                              *)
(***************************************************************************)
NoNumberText == <<"a", "b", "c">>

GivenValues(name) ==
  IF name = "principal" THEN TypedValues(name) \cup {NoNumberText}
  ELSE TypedValues(name)

AnyTextNext ==
  \/ \E d \in PickedDates : SetDate(d)
  \/ \E name \in InputNames : \E value \in GivenValues(name) :
       HandleInputChange(name, value)
  \/ \E value \in PickedFrequencies : HandleFrequencyChange(value)
  \/ RunEffect

AnyTextSpec == Init /\ [][AnyTextNext]_vars

(***************************************************************************)
(* The properties.  Their preconditions and expected values are written    *)
(* from the statements they check; what the component holds is read from   *)
(* its state.                                                              *)
(***************************************************************************)
Gt0(x) == Lt(Zero, x)

Ge0(x) == Le(Zero, x)

\* principal > 0, rate >= 0, tenure > 0, a frequency of the four,
\* moratorium >= 0, a date selected
ValidInput ==
  /\ date # NoDate
  /\ Gt0(Number(formData.principal))
  /\ Ge0(Number(formData.rate))
  /\ Gt0(Number(formData.tenure))
  /\ formData.frequency \in {"monthly", "quarterly", "semi-annually", "annually"}
  /\ Ge0(Number(formData.moratorium))

\* the effect has run on a valid input
Computed == ~pending /\ ValidInput

\* periods per year as the statements give them
StatedPeriodsPerYear(frequency) ==
  CASE frequency = "monthly" -> 12
    [] frequency = "quarterly" -> 4
    [] frequency = "semi-annually" -> 2
    [] frequency = "annually" -> 1

\* tenureYears x periodsPerYear
StatedPeriods ==
  Mul(Number(formData.tenure), FromInt(StatedPeriodsPerYear(formData.frequency)))

\* rate / 100 / periodsPerYear
StatedRate ==
  Div(Div(Number(formData.rate), FromInt(100)),
      FromInt(StatedPeriodsPerYear(formData.frequency)))

Known(x) == x.k # "unk"

Abs(x) == IF IsFin(x) /\ x.s < 0 THEN Neg(x) ELSE x

\* half a cent
Tolerance == Ratio(1, 200)

Near(x, y) == Lt(Abs(Sub(x, y)), Tolerance)

\* the amount of c cents
Cents(c) == Ratio(c, 100)

\* C1 (as stated): for every valid input the stored schedule has exactly
\* tenureYears x periodsPerYear(frequency) rows.
C1_RowsEqualProduct ==
  Computed => Eq(FromInt(Len(schedule)), StatedPeriods)

\* rows is the least integer that is not below periods
LeastIntegerNotBelow(rows, periods) ==
  Le(periods, FromInt(rows)) /\ Lt(FromInt(rows - 1), periods)

\* C1 (amended): for every valid input the stored schedule has as many rows
\* as the least integer that is not below tenureYears x periodsPerYear, which
\* is that product when it is an integer.
C1_RowsCoverProduct ==
  Computed =>
    /\ LeastIntegerNotBelow(Len(schedule), StatedPeriods)
    /\ IsInteger(StatedPeriods) => Eq(FromInt(Len(schedule)), StatedPeriods)

\* a year and a half of annual payments: two rows
C1_Witness ==
  /\ Computed
  /\ formData.tenure = <<"1", ".", "5">>
  /\ formData.frequency = "annually"
  /\ Len(schedule) = 2

\* payment x (pw - 1) = principal x r x pw in every row of sched, for a
\* power pw = (1+r)^n that the model computes
AllLevelPayments(sched, principal, r, pw) ==
  \A i \in 1..Len(sched) :
    Known(pw) =>
    Eq(Mul(sched[i].payment, Sub(pw, FromInt(1))), Mul(Mul(principal, r), pw))

\* the first row of the reference case
ReferenceRow(row) ==
  /\ Near(row.payment, Cents(888488))
  /\ Eq(row.interest, FromInt(1000))
  /\ Near(row.principal, Cents(788488))
  /\ Near(row.balance, Cents(9211512))

\* C2: for every valid input with rate > 0 the payment of every row is principal x r x (1+r)^n / ((1+r)^n - 1) with
\* r = rate/100/periodsPerYear and n = tenureYears x periodsPerYear; for
\* principal 100000, rate 12, tenure 1, monthly, r is 0.01, the payment is
\* 8884.88, and the first row has interest 1000, principal 7884.88 and
\* balance 92115.12, each to the cent.
C2_LevelPaymentFormula ==
  /\ (Computed /\ Gt0(Number(formData.rate))) =>
       AllLevelPayments(schedule, Number(formData.principal), StatedRate,
                        Pow(Add(FromInt(1), StatedRate), StatedPeriods))
  /\ (Computed /\ formData = ReferenceCase) =>
       /\ Len(schedule) = 12
       /\ Eq(StatedRate, Ratio(1, 100))
       /\ Eq(schedule[1].interest, Mul(Number(formData.principal), Ratio(1, 100)))
       /\ ReferenceRow(schedule[1])

C2_Witness ==
  /\ Computed
  /\ formData = ReferenceCase
  /\ Len(schedule) = 12
  /\ IsFin(schedule[1].payment)

\* every row of sched has payment = share, interest = 0, principal = share
\* and carries no NaN
AllEqualShares(sched, share) ==
  \A i \in 1..Len(sched) :
    /\ Eq(sched[i].payment, share)
    /\ Eq(sched[i].interest, Zero)
    /\ Eq(sched[i].principal, share)
    /\ ~IsNaN(sched[i].balance)

\* C3 (as stated): with an interest rate of 0 every row has payment =
\* principal / totalPeriods, interest = 0 and principal component =
\* principal / totalPeriods (12000 over 12 months: 12 rows of 1000), and no
\* row carries NaN.
C3_ZeroRateShares ==
  (Computed /\ Eq(Number(formData.rate), Zero) /\ IsInteger(StatedPeriods)) =>
    /\ AllEqualShares(schedule, Div(Number(formData.principal), StatedPeriods))
    /\ formData = ZeroRateCase =>
         /\ Len(schedule) = 12
         /\ Eq(schedule[1].payment, FromInt(1000))

\* C4 (as stated): for every valid input the balance of the last row of the
\* computed schedule is 0 within a small tolerance.  (A balance the model
\* does not compute is not held against the statement.)
C4_FinalBalanceZero ==
  (Computed /\ schedule # <<>>) =>
    \/ ~Known(schedule[Len(schedule)].balance)
    \/ Near(schedule[Len(schedule)].balance, Zero)

\* C5 (as stated): in every computed schedule the balance does not increase
\* from one row to the next, the first row's balance is at most the
\* principal, and no balance is negative.  (Balances the model does not
\* compute are not held against the statement.)
C5_BalanceNonIncreasing ==
  (Computed /\ schedule # <<>>) =>
    /\ ~Known(schedule[1].balance)
         \/ Le(schedule[1].balance, Number(formData.principal))
    /\ \A i \in 1..Len(schedule) :
         ~Known(schedule[i].balance) \/ Ge0(schedule[i].balance)
    /\ \A i \in 1..Len(schedule) - 1 :
         \/ ~Known(schedule[i].balance)
         \/ ~Known(schedule[i + 1].balance)
         \/ Le(schedule[i + 1].balance, schedule[i].balance)

\* C6: in every computed schedule every row carries the same payment value.
C6_LevelPayment ==
  ~pending =>
    \A i \in 1..Len(schedule) : \A j \in 1..Len(schedule) :
      schedule[i].payment = schedule[j].payment

\* a schedule of a year of months whose principal components differ
C6_Witness ==
  /\ Computed
  /\ Len(schedule) = 12
  /\ IsFin(schedule[1].payment)
  /\ schedule[1].principal # schedule[2].principal
  /\ schedule[12].payment = schedule[1].payment

\* the sum of the principal components of the rows of sched from row i on,
\* added to acc
RECURSIVE SumOfPrincipal(_, _, _)
SumOfPrincipal(sched, i, acc) ==
  IF i > Len(sched) THEN acc
  ELSE SumOfPrincipal(sched, i + 1, Add(acc, sched[i].principal))

NearOrUnknown(x, y) == ~Known(x) \/ Near(x, y)

\* C7 (as stated): for every valid input the principal components of all
\* rows add up to the loan principal, up to rounding.  (A sum the model does
\* not compute is not held against the statement.)
C7_PrincipalSum ==
  Computed =>
    NearOrUnknown(SumOfPrincipal(schedule, 1, Zero), Number(formData.principal))

\* the effect has run validateForm on the form data the component holds
Validated == ~pending /\ EffectCondition

\* the fields that are invalid, as the statement gives the conditions
InvalidFields ==
  {f \in {"principal"} : Le(Number(formData.principal), Zero)}
  \cup {f \in {"tenure"} : Le(Number(formData.tenure), Zero)}
  \cup {f \in {"rate"} : Lt(Number(formData.rate), Zero)}
  \cup {f \in {"moratorium"} : Lt(Number(formData.moratorium), Zero)}

\* C8: after validateForm has run, errors has a principal entry iff
\* principal <= 0, a tenure entry iff tenure <= 0, a rate entry iff rate < 0
\* and a moratorium entry iff moratorium < 0, all of them together; and it
\* returned true iff errors is empty.
C8_ErrorPerInvalidField ==
  Validated =>
    /\ DOMAIN errors = InvalidFields
    /\ ValidateFormReturns(errors) <=> InvalidFields = {}

\* three fields failing in the same run
C8_Witness ==
  /\ Validated
  /\ DOMAIN errors = {"principal", "tenure", "moratorium"}
  /\ ~ValidateFormReturns(errors)

\* C9: when a field is invalid, the run of calculateSchedule leaves the
\* schedule exactly what it was before the call.
C9_InvalidLeavesSchedule ==
  [][(pending /\ EffectCondition /\ InvalidFields # {}) => schedule' = schedule]_vars

\* calculateSchedule has run on an invalid field while a schedule was held
C9_Witness ==
  /\ Validated
  /\ InvalidFields # {}
  /\ errors # NoErrors
  /\ schedule # <<>>

\* a date is selected, no field is empty and every field is valid
Computable == EffectCondition /\ InvalidFields = {}

\* C10 (as stated): once the effect has run, the schedule held is the one
\* computed from the current date and form values, never one left over from
\* earlier values.
C10_NeverStale ==
  ~pending =>
    IF Computable THEN schedule = NewSchedule(formData, date) ELSE schedule = <<>>

\* C10 (amended): once the effect has run, if a date is selected, no field
\* is empty and every field is valid, the schedule held is the one computed
\* from the current date and form values.
C10_RecomputedWhenComputable ==
  (~pending /\ Computable) => schedule = NewSchedule(formData, date)

\* the schedule of annual payments, after the form held monthly payments
C10_Witness ==
  /\ ~pending
  /\ Computable
  /\ formData.frequency = "annually"
  /\ Len(schedule) = 1

\* the count of calendar months up to the month of the date dt
MonthIndex(dt) == dt.y * 12 + dt.m

\* the day dt is before the day du
DateBefore(dt, du) ==
  \/ MonthIndex(dt) < MonthIndex(du)
  \/ MonthIndex(dt) = MonthIndex(du) /\ dt.d < du.d

\* the length of a period in months as the statements give it
StatedPeriodMonths(frequency) ==
  CASE frequency = "monthly" -> 1
    [] frequency = "quarterly" -> 3
    [] frequency = "semi-annually" -> 6
    [] frequency = "annually" -> 12

\* du is a day of the calendar month k months after the month of dt, and not
\* a later day of the month than dt
MonthsLater(dt, k, du) ==
  /\ du # InvalidDate
  /\ MonthIndex(du) = MonthIndex(dt) + k
  /\ du.d <= dt.d

\* moratoriumMonths, a whole number on the forms drawn
StatedMoratorium == ToInteger(Number(formData.moratorium))

\* C11 (as stated): in every computed schedule the row dates are strictly
\* increasing, the first row's date is the selected date advanced by
\* moratoriumMonths months, and each next row's date is the previous row's
\* date advanced by one period length (1, 3, 6 or 12 months).
C11_DatesIncreaseByPeriod ==
  (Computed /\ schedule # <<>>) =>
    /\ MonthsLater(date, StatedMoratorium, schedule[1].date)
    /\ \A i \in 1..Len(schedule) - 1 :
         /\ DateBefore(schedule[i].date, schedule[i + 1].date)
         /\ MonthsLater(schedule[i].date, StatedPeriodMonths(formData.frequency),
                        schedule[i + 1].date)

\* C12 (as stated): month addition is calendar-safe for every start date:
\* the date of row i is a valid date in the calendar month that is
\* moratoriumMonths + (i - 1) period lengths after the month of the selected
\* date (January 31 advanced by one month is a day of February).
C12_CalendarSafeMonths ==
  Computed =>
    \A i \in 1..Len(schedule) :
      /\ schedule[i].date # InvalidDate
      /\ schedule[i].date.d \in 1..DaysInMonth(schedule[i].date.y, schedule[i].date.m)
      /\ MonthIndex(schedule[i].date) =
           MonthIndex(date) + StatedMoratorium
             + (i - 1) * StatedPeriodMonths(formData.frequency)

\* the payment, interest, principal and balance of every row of sched
Amounts(sched) ==
  [i \in 1..Len(sched) |->
     [payment |-> sched[i].payment, interest |-> sched[i].interest,
      principal |-> sched[i].principal, balance |-> sched[i].balance]]

\* the moratoria compared
StatedMoratoria == {IntText(0), IntText(1), IntText(3)}

\* C13: for valid inputs that differ only in moratoriumMonths the schedules
\* have the same number of rows and the same payment, interest, principal
\* and balance in every row; with a moratorium of 3 months and the date
\* 2024-01-01 selected the first row is dated 2024-04-01.
C13_MoratoriumShiftsOnlyDates ==
  Computed =>
    /\ \A m \in StatedMoratoria :
         Amounts(schedule) =
           Amounts(NewSchedule([formData EXCEPT !.moratorium = m], date))
    /\ (formData.moratorium = IntText(3) /\ date = Jan1) =>
         schedule[1].date = [y |-> 2024, m |-> 3, d |-> 1]

C13_Witness ==
  /\ Computed
  /\ formData.moratorium = IntText(3)
  /\ date = Jan1
  /\ Len(schedule) = 12
  /\ IsFin(schedule[1].payment)
  /\ schedule[1].date = [y |-> 2024, m |-> 3, d |-> 1]

\* C14 (as stated): when calculateSchedule has run with a frequency outside
\* monthly, quarterly, semi-annually, annually (on otherwise valid,
\* complete values) an error is signalled: the run does not finish as if
\* nothing were wrong.
C14_UnknownFrequencySignalled ==
  (Validated /\ InvalidFields = {}
     /\ formData.frequency \notin {"monthly", "quarterly", "semi-annually", "annually"})
  => errors # NoErrors

\* sched has a row for every period of the form held
Complete(sched) == LeastIntegerNotBelow(Len(sched), StatedPeriods)

C16_FunctionOfInputsOnly ==
  [][(pending /\ EffectCondition) =>
       /\ date' = date
       /\ formData' = formData
       /\ errors' = ValidateForm(formData)
       /\ InvalidFields = {} => schedule' = NewSchedule(formData, date)]_vars

\* a year of monthly rows stored although errors and another schedule were
\* held at some time before
C16_Witness ==
  /\ ~pending
  /\ Computable
  /\ formData.frequency = "monthly"
  /\ errors = NoErrors
  /\ Len(schedule) = 12
  /\ schedule[12].date = [y |-> 2024, m |-> 11, d |-> 1]

\* the balance entering period i: the principal for period 1, then the
\* balance shown in the row before
Entering(sched, i) ==
  IF i = 1 THEN Number(formData.principal) ELSE sched[i - 1].balance

\* C17: in every computed schedule each row's interest is the balance
\* entering the period times the periodic rate, and each row's balance is
\* max(0, entering balance - principal component), the entering balance
\* being the principal for row 1 and the balance shown in the row before
\* for every later row.
C17_InterestAndBalanceRecurrence ==
  Computed =>
    \A i \in 1..Len(schedule) :
      /\ schedule[i].interest = Mul(Entering(schedule, i), StatedRate)
      /\ schedule[i].balance =
           Max(Zero, Sub(Entering(schedule, i), schedule[i].principal))

\* a schedule whose last payment overpays, so that the balance shown is
\* clamped, after a row with interest on a positive balance
C17_Witness ==
  /\ Computed
  /\ formData.tenure = <<"1", ".", "5">>
  /\ formData.frequency = "annually"
  /\ formData.rate = IntText(300)
  /\ Len(schedule) = 2
  /\ Gt0(schedule[1].balance)
  /\ Gt0(schedule[2].interest)
  /\ schedule[2].balance = Zero

\* tenureYears x periodsPerYear is no whole number
FractionalPeriods == IsFin(StatedPeriods) /\ ~IsInteger(StatedPeriods)

\* C18 (as stated): when tenureYears x periodsPerYear is not an integer the
\* number of rows is that value truncated (rounded down) to an integer.
C18_FractionalTruncated ==
  (Computed /\ FractionalPeriods) => Len(schedule) = ToInteger(StatedPeriods)

\* C18 (amended): when tenureYears x periodsPerYear is not an integer the
\* number of rows is that value rounded up to the next integer.
C18_FractionalRoundedUp ==
  (Computed /\ FractionalPeriods) => Len(schedule) = ToInteger(StatedPeriods) + 1

\* half a year of annual payments: one row
C18_Witness ==
  /\ Computed
  /\ FractionalPeriods
  /\ formData.tenure = <<"0", ".", "5">>
  /\ formData.frequency = "annually"
  /\ Len(schedule) = 1

\* a date is selected and all five form fields are non-empty
FormComplete ==
  /\ date # NoDate
  /\ \A f \in {"principal", "tenure", "rate", "moratorium"} : formData[f] # <<>>
  /\ formData.frequency # ""

\* C19: errors and schedule are modified only when the effect runs after a
\* change that left a date selected and all five form fields non-empty; a
\* change that left the date unselected or a field empty leaves both as
\* they were.
C19_GatedByCompleteness ==
  [][/\ (schedule' # schedule \/ errors' # errors) => (pending /\ FormComplete)
     /\ (pending /\ ~FormComplete) => (schedule' = schedule /\ errors' = errors)]_vars

\* an invalid principal typed while the tenure is still empty: no error
C19_Witness ==
  /\ ~pending
  /\ date # NoDate
  /\ formData.principal = IntText(0)
  /\ formData.tenure = <<>>
  /\ errors = NoErrors

====
